---- MODULE Spec2Model ----
(***************************************************************************)
(* A model of navani's echem.py: the loaders reached from                  *)
(* echem_file_loader (arbin_res, arbin_excel, biologic_processing,         *)
(* ivium_processing, new/old_land_processing, neware_reader and the .csv   *)
(* branch) and cycle_summary.                                              *)
(*                                                                         *)
(* A pandas DataFrame is a function from column names to columns; a column *)
(* is a sequence, one element per row, in row order.  The row index is the *)
(* column named IDX.  Floating point values are integers (every input is   *)
(* chosen so that the arithmetic of the code is exact on it) together with *)
(* NaN, PosInf and NegInf.                                                 *)
(***************************************************************************)
EXTENDS Integers, Sequences, FiniteSets, TLC

VARIABLES pc, src, via, expected_capacity_unit, raw, df, dtype, err, summary, dqdv

vars == <<pc, src, via, expected_capacity_unit, raw, df, dtype, err, summary, dqdv>>

(***************************************************************************)
(* Bounds of the model.                                                    *)
(***************************************************************************)
MaxLen == 3

(***************************************************************************)
(* Floating point values that are not numbers.                             *)
(***************************************************************************)
NaN == -999999
PosInf == 1000000
NegInf == -1000000

IsNaN(x) == x = NaN
IsInf(x) == x = PosInf \/ x = NegInf

\* x > y, x < y, x == y, x >= y as IEEE comparisons: false when either is NaN
FGt(x, y) == ~IsNaN(x) /\ ~IsNaN(y) /\ x > y
FLt(x, y) == ~IsNaN(x) /\ ~IsNaN(y) /\ x < y
FEq(x, y) == ~IsNaN(x) /\ ~IsNaN(y) /\ x = y
FGe(x, y) == ~IsNaN(x) /\ ~IsNaN(y) /\ x >= y

Abs(x) == IF x < 0 THEN -x ELSE x
FAbs(x) == IF IsNaN(x) THEN NaN ELSE IF IsInf(x) THEN PosInf ELSE Abs(x)
FMul(x, y) == IF IsNaN(x) \/ IsNaN(y) THEN NaN ELSE x * y
FAdd(x, y) == IF IsNaN(x) \/ IsNaN(y) THEN NaN ELSE x + y
FSub(x, y) == IF IsNaN(x) \/ IsNaN(y) THEN NaN ELSE x - y

(***************************************************************************)
(* The values of the 'state' column.  St0 and St1 are the integers 0 and  *)
(* 1, Str0 and Str1 the strings '0' and '1' a csv file is read back with.  *)
(***************************************************************************)
StR == "R"
St0 == "0"
St1 == "1"
Str0 == "'0'"
Str1 == "'1'"
StUnknown == "unknown"
Raise == "raise"

IDX == "_index"

(***************************************************************************)
(* DataFrame helpers.                                                      *)
(***************************************************************************)
\* the value of e handed to F: each intermediate frame or column of a
\* function body is computed once, in the order of the statements
Bind(e, F(_)) == CHOOSE r \in {F(v) : v \in {e}} : TRUE
\* a column (or frame) with every element computed
Col(f) == f @@ <<>>

Rows(d) == 1..Len(d[IDX])
HasCol(d, c) == c \in DOMAIN d
\* df[c] = col (adds the column or overwrites it)
SetCol(d, c, col) == (c :> Col(col)) @@ d
DropCol(d, c) == Col([k \in (DOMAIN d) \ {c} |-> d[k]])
RenameCol(d, old, new) ==
    IF old \in DOMAIN d
    THEN Col([k \in ((DOMAIN d) \ {old}) \cup {new} |-> IF k = new THEN d[old] ELSE d[k]])
    ELSE d
ConstCol(d, v) == Col([i \in Rows(d) |-> v])
RangeIndex(n) == Col([i \in 1..n |-> i - 1])
EmptyFrame == [k \in {IDX} |-> <<>>]

\* the positions of the rows in increasing order of key (keys are unique)
RankOf(key, i) == Cardinality({j \in DOMAIN key : key[j] < key[i]}) + 1
SortPos(key) == Col([k \in DOMAIN key |-> CHOOSE i \in DOMAIN key : RankOf(key, i) = k])
\* every column reordered by the positions pos
Reorder(d, pos) == Col([c \in DOMAIN d |-> Col([k \in DOMAIN pos |-> d[c][pos[k]]])])

\* np.diff(col, prepend=p)
Diff(col, p) ==
    Col([i \in DOMAIN col |-> IF i = 1 THEN FSub(col[1], p) ELSE FSub(col[i], col[i-1])])

\* Series.cumsum(): NaN entries stay NaN and are skipped by the running sum
RECURSIVE SumSkipNaN(_, _)
SumSkipNaN(col, i) ==
    IF i = 0 THEN 0
    ELSE SumSkipNaN(col, i - 1) + (IF IsNaN(col[i]) THEN 0 ELSE col[i])
CumSum(col) == Col([i \in DOMAIN col |-> IF IsNaN(col[i]) THEN NaN ELSE SumSkipNaN(col, i)])

\* the positions 1..n that are in the set P, in increasing order
RECURSIVE Positions(_, _)
Positions(P, n) ==
    IF n = 0 THEN <<>>
    ELSE IF n \in P THEN Append(Positions(P, n - 1), n) ELSE Positions(P, n - 1)

(***************************************************************************)
(* StateSegmenter: the sign classifiers and the half cycle counter.        *)
(***************************************************************************)
\* arbin_res.arbin_state and arbin_excel.arbin_state
arbin_state(x) ==
    IF FGt(x, 0) THEN St0
    ELSE IF FLt(x, 0) THEN St1
    ELSE IF FEq(x, 0) THEN StR
    ELSE Raise

\* biologic_processing.bio_state
bio_state(x) ==
    IF FGt(x, 0) THEN St0
    ELSE IF FLt(x, 0) THEN St1
    ELSE IF FEq(x, 0) THEN StR
    ELSE Raise

\* new_land_processing.land_state and old_land_processing.land_state
land_state(x) ==
    IF FGt(x, 0) THEN St0
    ELSE IF FLt(x, 0) THEN St1
    ELSE IF FEq(x, 0) THEN StR
    ELSE Raise

\* ivium_processing.ivium_state
ivium_state(x) == IF FGe(x, 0) THEN St0 ELSE St1

Raises(col) == \E i \in DOMAIN col : col[i] = Raise

CcTrue == "True"
CcFalse == "False"
CcNaN == "NaN"

\* df[df['state'] != 'R'].index
NotRestIdx(state) == {i \in DOMAIN state : state[i] # StR}

\* s.ne(s.shift()) at row k: row k of s differs from row k-1; the first row
\* differs from the missing value shift() puts before it
NeShift(s, k) == IF k = 1 THEN TRUE ELSE s[k] # s[k-1]

\* each row compared with the row before it, rest rows included
CycleChangeAllRows(state, base) ==
    Col([i \in DOMAIN state |->
           IF state[i] # StR
           THEN (IF NeShift(state, i) THEN CcTrue ELSE CcFalse)
           ELSE base])
\* df.loc[not_rest_idx, 'cycle change'] =
\*     df.loc[not_rest_idx, 'state'].ne(df.loc[not_rest_idx, 'state'].shift())
\* on a 'cycle change' column that holds base on every row before
CycleChange(state, base) ==
    Bind(Positions(NotRestIdx(state), Len(state)), LAMBDA p :
    Bind(Col([k \in DOMAIN p |-> state[p[k]]]), LAMBDA s :
      Col([i \in DOMAIN state |->
             IF state[i] # StR
             THEN (IF NeShift(s, CHOOSE k \in DOMAIN p : p[k] = i) THEN CcTrue ELSE CcFalse)
             ELSE base])))

\* (df['cycle change'] == True).cumsum()
HalfCycle(change) ==
    Col([i \in DOMAIN change |-> Cardinality({j \in 1..i : change[j] = CcTrue})])

\* the 'state', 'cycle change' and 'half cycle' columns of the sign based
\* loaders, from the mapped state column
Segment(d, state, base) ==
    Bind(CycleChange(state, base), LAMBDA change :
      SetCol(SetCol(SetCol(d, "state", state), "cycle change", change),
             "half cycle", HalfCycle(change)))

\* h // 2, the half cycles paired from 0 instead of from 1
FloorHalf(h) == h \div 2
\* np.ceil(h / 2)
CeilHalf(h) == IF h % 2 = 0 THEN h \div 2 ELSE (h \div 2) + 1

(***************************************************************************)
(* CapacityNormalizer, dual counter mode: the loop                         *)
(*   for cycle in df['half cycle'].unique():                               *)
(*       idx = df[(df['half cycle'] == cycle) & (df['state'] != 'R')].index*)
(*       if len(idx) > 0: Capacity[cycle rows] -= Capacity[idx[0]]         *)
(* The rows of different cycles are disjoint, so each row is changed by    *)
(* the iteration of its own half cycle only.                               *)
(***************************************************************************)
FirstIn(idx) == IF idx = {} THEN 0 ELSE CHOOSE i \in idx : \A j \in idx : i <= j

FirstNonRest(half, state, h) ==
    FirstIn({i \in DOMAIN half : half[i] = h /\ state[i] # StR})

\* the reset applied to the rows that are not at rest only
ResetNonRestOnly(cap, half, state) ==
    Col([i \in DOMAIN cap |->
           Bind(FirstNonRest(half, state, half[i]), LAMBDA f :
             IF f # 0 /\ state[i] # StR THEN FSub(cap[i], cap[f]) ELSE cap[i])])
ResetCapacity(cap, half, state) ==
    Col([i \in DOMAIN cap |->
           Bind(FirstNonRest(half, state, half[i]), LAMBDA f :
             IF f # 0 THEN FSub(cap[i], cap[f]) ELSE cap[i])])

ColAdd(a, b) == Col([i \in DOMAIN a |-> FAdd(a[i], b[i])])
ColScale(a, k) == Col([i \in DOMAIN a |-> FMul(a[i], k)])
ColMul(a, b) == Col([i \in DOMAIN a |-> FMul(a[i], b[i])])
ColAbs(a) == Col([i \in DOMAIN a |-> FAbs(a[i])])

(***************************************************************************)
(* arbin_res(df).  The result is the frame as the function leaves it and   *)
(* the exception it raised, if any.                                        *)
(***************************************************************************)
NoErr == "none"
ErrNotANumber == "ValueError: Unexpected value in current - not a number"
ErrNoCapacity == "KeyError: Unable to find capacity columns"
ErrKeyError == "KeyError: column not in frame"

\* df['Capacity'] of arbin_res before the reset
ArbinResCapacity(d) ==
    IF HasCol(d, "Discharge_Capacity")
    THEN ColAdd(d["Discharge_Capacity"], d["Charge_Capacity"])
    ELSE ColAdd(d["Discharge_Capacity(Ah)"], ColScale(d["Charge_Capacity(Ah)"], 1000))

arbin_res(d0) ==
    \* df.set_index('Data_Point', inplace=True); df.sort_index(inplace=True)
    Bind(SortPos(d0["Data_Point"]), LAMBDA pos :
    Bind(Reorder(SetCol(DropCol(d0, "Data_Point"), IDX, d0["Data_Point"]), pos), LAMBDA d1 :
    Bind(Col([i \in Rows(d1) |-> arbin_state(d1["Current"][i])]), LAMBDA state :
      IF Raises(state) THEN [df |-> d1, err |-> ErrNotANumber]
      ELSE Bind(Segment(d1, state, CcFalse), LAMBDA d2 :
        IF ~HasCol(d2, "Discharge_Capacity") /\ ~HasCol(d2, "Discharge_Capacity(Ah)")
        THEN [df |-> d2, err |-> ErrNoCapacity]
        ELSE Bind(ArbinResCapacity(d2), LAMBDA cap :
          [df |-> SetCol(d2, "Capacity", ResetCapacity(cap, d2["half cycle"], d2["state"])),
           err |-> NoErr])))))

(***************************************************************************)
(* arbin_excel(df)                                                         *)
(***************************************************************************)
\* df['Capacity'] of arbin_excel before the reset
ArbinExcelCapacity(d) ==
    ColScale(ColAdd(d["Discharge_Capacity(Ah)"], d["Charge_Capacity(Ah)"]), 1000)

ArbinExcelRename(d) ==
    Bind(SetCol(SetCol(d, "Voltage", d["Voltage(V)"]), "Current", d["Current(A)"]), LAMBDA d4 :
      IF HasCol(d4, "Test_Time(s)") THEN SetCol(d4, "Time", d4["Test_Time(s)"]) ELSE d4)

arbin_excel(d0) ==
    \* df.reset_index(inplace=True): the old index becomes column 'index'
    Bind(SetCol(SetCol(d0, "index", d0[IDX]), IDX, RangeIndex(Len(d0[IDX]))), LAMBDA d1 :
    Bind(Col([i \in Rows(d1) |-> arbin_state(d1["Current(A)"][i])]), LAMBDA state :
      IF Raises(state) THEN [df |-> d1, err |-> ErrNotANumber]
      ELSE Bind(Segment(d1, state, CcNaN), LAMBDA d2 :
        IF ~HasCol(d2, "Discharge_Capacity(Ah)") \/ ~HasCol(d2, "Charge_Capacity(Ah)")
        THEN [df |-> d2, err |-> ErrKeyError]
        ELSE Bind(ArbinExcelCapacity(d2), LAMBDA cap :
          [df |-> ArbinExcelRename(SetCol(d2, "Capacity",
                      ResetCapacity(cap, d2["half cycle"], d2["state"]))),
           err |-> NoErr]))))

(***************************************************************************)
(* ivium_processing(df)                                                    *)
(***************************************************************************)
SecondsPerHour == 3600

\* x / 3600, exact on the inputs of the model (times are whole hours)
FDivHour(x) == IF IsNaN(x) THEN NaN ELSE x \div SecondsPerHour

\* for cycle in df['half cycle'].unique():
\*     df.loc[idx, c] = df.loc[idx, c].cumsum()    over the rows idx of cycle
CumSumPerCycle(col, half) ==
    Col([i \in DOMAIN col |->
           IF IsNaN(col[i]) THEN NaN
           ELSE SumSkipNaN([j \in DOMAIN col |-> IF half[j] = half[i] THEN col[j] ELSE 0], i)])

\* df['state'].ne(df['state'].shift()).cumsum()
NeShiftCumSum(state) ==
    Col([i \in DOMAIN state |-> Cardinality({j \in 1..i : NeShift(state, j)})])

\* abs(df.loc[idx, 'dq']).cumsum()/3600 for the rows idx of each half cycle
IviumCapacity(dq, half) ==
    Bind(CumSumPerCycle(ColAbs(dq), half), LAMBDA cs :
      Col([i \in DOMAIN dq |-> FDivHour(cs[i])]))

ivium_processing(d0) ==
    Bind(ColMul(Diff(d0["time /s"], 0), d0["I /mA"]), LAMBDA dq :
    Bind(Col([i \in Rows(d0) |-> ivium_state(d0["I /mA"][i])]), LAMBDA state :
    Bind(NeShiftCumSum(state), LAMBDA half :
    Bind(SetCol(SetCol(SetCol(SetCol(d0, "dq", dq), "state", state), "half cycle", half),
                "Capacity", IviumCapacity(dq, half)), LAMBDA d1 :
      [df |-> SetCol(SetCol(d1, "Voltage", d1["E /V"]), "Time", d1["time /s"]),
       err |-> NoErr]))))

(***************************************************************************)
(* new_land_processing(df) and old_land_processing(df)                     *)
(***************************************************************************)
\* a cell of the sheet that holds text
TextCell == 999998

\* df = df[df['Current/mA'].apply(type) != str]; df = df[pd.notna(df['Current/mA'])]
\* the rows kept keep their index labels
LandFilter(d0) ==
    Reorder(d0, Positions({i \in Rows(d0) : d0["Current/mA"][i] # TextCell
                                            /\ ~IsNaN(d0["Current/mA"][i])},
                          Len(d0[IDX])))

LandSegment(d0) ==
    Bind(LandFilter(d0), LAMBDA d1 :
    Bind(Col([i \in Rows(d1) |-> land_state(d1["Current/mA"][i])]), LAMBDA state :
    Bind(Segment(d1, state, CcNaN), LAMBDA d2 :
      SetCol(SetCol(d2, "Voltage", d2["Voltage/V"]), "Capacity", d2["Capacity/mAh"]))))

new_land_processing(d0) ==
    Bind(LandSegment(d0), LAMBDA d1 :
      [df |-> SetCol(d1, "Time", d1["time /s"]), err |-> NoErr])

old_land_processing(d0) == [df |-> LandSegment(d0), err |-> NoErr]

(***************************************************************************)
(* neware_reader(filename, expected_capacity_unit), from the table read()  *)
(* returns on.                                                             *)
(***************************************************************************)
ErrUnit == "RuntimeError: Unexpected capacity unit"

NewareState(status) ==
    IF status = "Rest" THEN StR
    ELSE IF status = "CC_Chg" THEN St1
    ELSE IF status = "CC_DChg" THEN St0
    ELSE StUnknown

NewareCapacity(d, unit) ==
    Bind(ColAdd(d["Discharge_Capacity(mAh)"], d["Charge_Capacity(mAh)"]), LAMBDA sum :
      IF unit = "Ah" THEN ColScale(sum, 1000) ELSE sum)

\* df["half cycle"] = df["Cycle"]
NewareHalfCycle(d) == d["Cycle"]

neware_reader(d0, unit) ==
    Bind(SetCol(DropCol(d0, "Index"), IDX, d0["Index"]), LAMBDA d1 :
      IF unit \notin {"Ah", "mAh"} THEN [df |-> d1, err |-> ErrUnit]
      ELSE Bind(Col([i \in Rows(d1) |-> NewareState(d1["Status"][i])]), LAMBDA state :
           Bind(SetCol(SetCol(SetCol(SetCol(d1, "Capacity", NewareCapacity(d1, unit)),
                       "Current", ColScale(d1["Current(mA)"], 1000)),
                       "state", state), "half cycle", NewareHalfCycle(d1)), LAMBDA d2 :
             [df |-> SetCol(d2, "cycle change", CycleChange(state, CcFalse)),
              err |-> NoErr])))

(***************************************************************************)
(* biologic_processing(df)                                                 *)
(***************************************************************************)
\* dq / (dt / 3600): dt is a whole number of hours and dq a multiple of it
\* on the inputs of the model; a zero dt gives nan or an infinity
CurrentOf(dq, dt) ==
    IF dt \div SecondsPerHour = 0
    THEN (IF dq = 0 THEN NaN ELSE IF dq > 0 THEN PosInf ELSE NegInf)
    ELSE dq \div (dt \div SecondsPerHour)

\* df['Current'] = df['dQ/mA.h']/(df['dt']/3600)
\* if np.isnan(df['Current'].iloc[0]): df.loc[df.index[0], 'Current'] = 0
BioCurrent(dq, dt) ==
    Col([i \in DOMAIN dq |->
           IF i = 1 /\ IsNaN(CurrentOf(dq[i], dt[i])) THEN 0 ELSE CurrentOf(dq[i], dt[i])])

BioTime(d0) == IF HasCol(d0, "time/s") THEN SetCol(d0, "Time", d0["time/s"]) ELSE d0

\* the voltage change of each row: np.diff(df['Ewe/V'], prepend=df['Ewe/V'][0])
BioDeltaV(d) == Diff(d["Ewe/V"], d["Ewe/V"][1])

\* the columns the branch taken adds before 'state' is mapped, and the
\* column ("by") the state is mapped from
BioDerive(d0) ==
    Bind(BioTime(d0), LAMBDA d1 :
      IF HasCol(d1, "time/s") /\ (HasCol(d1, "dQ/mA.h") \/ HasCol(d1, "dq/mA.h"))
      THEN Bind(SetCol(IF HasCol(d1, "dQ/mA.h") THEN d1 ELSE RenameCol(d1, "dq/mA.h", "dQ/mA.h"),
                       "dt", Diff(d1["time/s"], 0)),
             LAMBDA d3 :
               [df |-> SetCol(d3, "Current", BioCurrent(d3["dQ/mA.h"], d3["dt"])),
                by |-> "Current"])
      ELSE IF HasCol(d1, "time/s") /\ HasCol(d1, "Q charge/discharge/mA.h")
      THEN Bind(SetCol(SetCol(d1, "dQ/mA.h", Diff(d1["Q charge/discharge/mA.h"], 0)),
                       "dt", Diff(d1["time/s"], 0)),
             LAMBDA d3 :
               [df |-> SetCol(d3, "Current", BioCurrent(d3["dQ/mA.h"], d3["dt"])),
                by |-> "Current"])
      ELSE IF HasCol(d1, "I/mA") /\ ~HasCol(d1, "Q charge/discharge/mA.h")
              /\ ~HasCol(d1, "dQ/mA.h") /\ HasCol(d1, "Ewe/V")
      THEN [df |-> SetCol(SetCol(d1, "Current", d1["I/mA"]), "dV", BioDeltaV(d1)), by |-> "dV"]
      ELSE IF HasCol(d1, "<I>/mA") /\ ~HasCol(d1, "Q charge/discharge/mA.h")
              /\ ~HasCol(d1, "dQ/mA.h") /\ HasCol(d1, "Ewe/V")
      THEN [df |-> SetCol(SetCol(d1, "Current", d1["<I>/mA"]), "dV", BioDeltaV(d1)), by |-> "dV"]
      ELSE [df |-> d1, by |-> "none"])

\* df.loc[cycle_idx, 'Capacity'] = df.loc[cycle_idx, c] - df.loc[cycle_idx[0], c]
FirstOfCycle(half, i) == FirstIn({j \in DOMAIN half : half[j] = half[i]})

SubtractFirstOfCycle(col, half) ==
    Col([i \in DOMAIN col |-> FSub(col[i], col[FirstOfCycle(half, i)])])

\* df['cycle change'] = False, the assignment to the rows that are not at
\* rest if there is a 'state' column, and 'half cycle'
BioSegment(d) ==
    Bind(IF HasCol(d, "state") THEN CycleChange(d["state"], CcFalse) ELSE ConstCol(d, CcFalse),
      LAMBDA change : SetCol(SetCol(d, "cycle change", change), "half cycle", HalfCycle(change)))

\* the capacity column of the first layout that matches
BioCapacity(d3) ==
    IF HasCol(d3, "Q charge/discharge/mA.h")
    THEN SetCol(d3, "Capacity", ColAbs(d3["Q charge/discharge/mA.h"]))
    ELSE IF HasCol(d3, "dQ/mA.h")
    THEN SetCol(d3, "Capacity", CumSumPerCycle(ColAbs(d3["dQ/mA.h"]), d3["half cycle"]))
    ELSE IF HasCol(d3, "(Q-Qo)/C")
    THEN SetCol(d3, "Capacity", SubtractFirstOfCycle(d3["(Q-Qo)/C"], d3["half cycle"]))
    \* print('Warning: unhandled column layout. ...'); the frame is returned
    ELSE d3

biologic_processing(d0) ==
    Bind(BioDerive(d0), LAMBDA b :
      IF b.by = "none"
      THEN [df |-> RenameCol(BioCapacity(BioSegment(b.df)), "Ewe/V", "Voltage"), err |-> NoErr]
      ELSE Bind(Col([i \in Rows(b.df) |-> bio_state(b.df[b.by][i])]), LAMBDA state :
        IF Raises(state) THEN [df |-> b.df, err |-> ErrNotANumber]
        ELSE [df |-> RenameCol(BioCapacity(BioSegment(SetCol(b.df, "state", state))),
                               "Ewe/V", "Voltage"),
              err |-> NoErr]))

(***************************************************************************)
(* echem_file_loader: the .csv branch, the .txt column check and the       *)
(* 'full cycle' column added after every branch.                           *)
(***************************************************************************)
ErrCsvColumns == "ValueError: Columns do not match expected columns for navani processed csv"
ErrIviumColumns == "ValueError: Columns do not match expected columns for an ivium .txt file"

expected_columns == {"Capacity", "Voltage", "half cycle", "full cycle", "Current", "state"}

\* df['state'].replace('1', 1) and .replace('0', 0)
ReplaceState(x) == IF x = Str1 THEN St1 ELSE IF x = Str0 THEN St0 ELSE x

CsvBranch(d0) ==
    IF expected_columns \subseteq DOMAIN d0
    THEN [df |-> SetCol(d0, "state", [i \in Rows(d0) |-> ReplaceState(d0["state"][i])]),
          err |-> NoErr]
    ELSE [df |-> d0, err |-> ErrCsvColumns]

\* the dtypes the .csv branch casts to
CsvTypes(t0) ==
    [c \in DOMAIN t0 |->
       IF c \in {"Capacity", "Voltage", "Current"} THEN "float"
       ELSE IF c \in {"full cycle", "half cycle"} THEN "int"
       ELSE t0[c]]

TxtBranch(d0) ==
    IF {"time /s", "I /mA", "E /V"} \subseteq DOMAIN d0
    THEN ivium_processing(d0)
    ELSE [df |-> d0, err |-> ErrIviumColumns]

\* if "half cycle" in df.columns: df['full cycle'] = (df['half cycle']/2).apply(np.ceil)
FullCycle(half) == Col([i \in DOMAIN half |-> CeilHalf(half[i])])

\* 'full cycle' derived only for a table that does not bring one
AddFullCycleIfMissing(d) ==
    IF HasCol(d, "half cycle") /\ ~HasCol(d, "full cycle")
    THEN SetCol(d, "full cycle", FullCycle(d["half cycle"])) ELSE d
AddFullCycle(d) ==
    IF HasCol(d, "half cycle") THEN SetCol(d, "full cycle", FullCycle(d["half cycle"])) ELSE d

AddFullCycleType(d, t) ==
    IF HasCol(d, "half cycle")
    THEN [c \in (DOMAIN t) \cup {"full cycle"} |-> IF c = "full cycle" THEN "float" ELSE t[c]]
    ELSE t


(***************************************************************************)
(* cycle_summary(df, current_label).  A summary frame is a function from   *)
(* column names to columns, a column a function from the full cycle values *)
(* (the index) to values; a quotient is the pair <<numerator, denominator>>*)
(* and <<NaN, 1>> when it is not a number.                                 *)
(***************************************************************************)
current_labels == <<"Current", "Current(A)", "I /mA", "Current/mA", "I/mA", "<I>/mA">>
NoLabel == "None"

NotNaN(S) == {x \in S : ~IsNaN(x)}
\* Series.max() and Series.min() skip NaN; NaN when nothing is left
MaxOf(S) == IF NotNaN(S) = {} THEN NaN ELSE CHOOSE x \in NotNaN(S) : \A y \in NotNaN(S) : y <= x
MinOf(S) == IF NotNaN(S) = {} THEN NaN ELSE CHOOSE x \in NotNaN(S) : \A y \in NotNaN(S) : x <= y

Ratio(n, d) == IF IsNaN(n) \/ IsNaN(d) THEN <<NaN, 1>> ELSE <<n, d>>

RECURSIVE SumOver(_, _)
SumOver(col, P) ==
    IF P = {} THEN 0
    ELSE Bind(CHOOSE j \in P : TRUE, LAMBDA i : col[i] + SumOver(col, P \ {i}))

\* groupby('full cycle')[label].mean() of one group: NaN entries are skipped
MeanOfNumbers(col, Q) ==
    IF Q = {} THEN <<NaN, 1>>
    ELSE IF \E i \in Q : col[i] = PosInf
    THEN (IF \E i \in Q : col[i] = NegInf THEN <<NaN, 1>> ELSE <<PosInf, 1>>)
    ELSE IF \E i \in Q : col[i] = NegInf THEN <<NegInf, 1>>
    ELSE <<SumOver(col, Q), Cardinality(Q)>>

MeanOf(col, P) == MeanOfNumbers(col, {i \in P : ~IsNaN(col[i])})

\* the first label of current_labels that is a column of the frame
FoundLabel(d) ==
    Bind(FirstIn({k \in DOMAIN current_labels : current_labels[k] \in DOMAIN d}), LAMBDA k :
      IF k = 0 THEN NoLabel ELSE current_labels[k])

\* the rows of the frame that df['state'] == v selects
StateMask(d, v) == {i \in Rows(d) : d["state"][i] = v}
RowsOfFull(d, k) == {i \in Rows(d) : d["full cycle"][i] = k}
RowsOfHalf(d, h) == {i \in Rows(d) : d["half cycle"][i] = h}

\* df[mask].groupby('full cycle')[c].max(), written to the rows of the
\* summary that the mask reaches; the other rows hold NaN
MaxPerCycle(d, K, mask, c) ==
    Col([k \in K |-> IF RowsOfFull(d, k) \cap mask = {} THEN NaN
                     ELSE MaxOf({d[c][i] : i \in RowsOfFull(d, k) \cap mask})])

\* twice np.trapz(voltage, capacity) over the rows p, in row order
RECURSIVE Trapz2(_, _, _)
Trapz2(volt, cap, p) ==
    IF Len(p) < 2 THEN 0
    ELSE (cap[p[2]] - cap[p[1]]) * (volt[p[2]] + volt[p[1]]) + Trapz2(volt, cap, Tail(p))

\* np.trapz(voltage, capacity)/max(capacity)
average_voltage(d, P) ==
    IF \E i \in P : IsNaN(d["Capacity"][i]) \/ IsNaN(d["Voltage"][i]) THEN <<NaN, 1>>
    ELSE <<Trapz2(d["Voltage"], d["Capacity"], Positions(P, Len(d[IDX]))),
           2 * MaxOf({d["Capacity"][i] : i \in P})>>

\* the half cycle of the full cycle k whose first masked row comes last
LastHalfOf(d, mask, hs) ==
    CHOOSE h \in hs : \A g \in hs :
        FirstIn(mask \cap RowsOfHalf(d, g)) <= FirstIn(mask \cap RowsOfHalf(d, h))

\* for cycle in df.loc[df.index[mask]]['half cycle'].unique():
\*     summary_df.loc[np.ceil(cycle/2), column] = average_voltage(...)
\* the half cycles come in the order of their first masked row, and a later
\* one overwrites an earlier one of the same full cycle
AverageVoltages(d, K, mask) ==
    Col([k \in K |->
           Bind({d["half cycle"][i] : i \in {j \in mask : CeilHalf(d["half cycle"][j]) = k}},
             LAMBDA hs :
               IF hs = {} THEN <<NaN, 1>>
               ELSE average_voltage(d, RowsOfHalf(d, LastHalfOf(d, mask, hs))))])

ErrSummaryKey == "KeyError: cycle_summary column not in frame"
EmptySummary == [c \in {} |-> <<>>]

\* the column cycle_summary reads the current from
SummaryLabel(d, label) == IF label # NoLabel THEN label ELSE FoundLabel(d)

\* 'full cycle' written and the index reset to 0..n-1 on the way
SummaryFrameReindexed(d) ==
    SetCol(SetCol(d, "full cycle", FullCycle(d["half cycle"])), IDX, RangeIndex(Len(d[IDX])))
\* the frame as cycle_summary leaves it: 'full cycle' is written first
SummaryFrame(d) == SetCol(d, "full cycle", FullCycle(d["half cycle"]))

\* the quotient the docstring of cycle_summary names: discharge over charge
DischargeOverCharge(cha, dis) == Col([k \in DOMAIN cha |-> Ratio(dis[k], cha[k])])
\* summary_df['CE'] = summary_df['Charge Capacity']/summary_df['Discharge Capacity']
CoulombicEfficiency(cha, dis) == Col([k \in DOMAIN cha |-> Ratio(cha[k], dis[k])])

\* the state values the two capacity columns are taken over
DischargeLabel == St1
ChargeLabel == St0

SummaryCurrent(d, K, lab) ==
    IF lab = NoLabel THEN EmptySummary
    ELSE Col([c \in {lab} |-> Col([k \in K |-> MeanOf(d[lab], RowsOfFull(d, k))])])

SummaryVoltage(d, K, s0) ==
    SetCol(SetCol(s0,
       "UCV", [k \in K |-> MaxOf({d["Voltage"][i] : i \in RowsOfFull(d, k)})]),
       "LCV", [k \in K |-> MinOf({d["Voltage"][i] : i \in RowsOfFull(d, k)})])

SummaryCapacity(d, K, s1) ==
    Bind(MaxPerCycle(d, K, StateMask(d, DischargeLabel), "Capacity"), LAMBDA dis :
    Bind(MaxPerCycle(d, K, StateMask(d, ChargeLabel), "Capacity"), LAMBDA cha :
      SetCol(SetCol(SetCol(s1, "Discharge Capacity", dis), "Charge Capacity", cha),
             "CE", CoulombicEfficiency(cha, dis))))

SummaryAverage(d, K, s2) ==
    Bind(StateMask(d, DischargeLabel), LAMBDA dis_mask :
    Bind(StateMask(d, ChargeLabel), LAMBDA cha_mask :
    Bind(IF dis_mask = {} THEN s2
         ELSE SetCol(s2, "Average Discharge Voltage", AverageVoltages(d, K, dis_mask)),
      LAMBDA s3 :
         IF cha_mask = {} THEN s3
         ELSE SetCol(s3, "Average Charge Voltage", AverageVoltages(d, K, cha_mask)))))

cycle_summary(d0, label) ==
    IF ~HasCol(d0, "half cycle")
    THEN [df |-> d0, summary |-> EmptySummary, err |-> ErrSummaryKey]
    ELSE Bind(SummaryFrame(d0), LAMBDA d :
         Bind(SummaryLabel(d, label), LAMBDA lab :
           IF (lab # NoLabel /\ ~HasCol(d, lab)) \/ ~HasCol(d, "Voltage")
              \/ ~HasCol(d, "state") \/ ~HasCol(d, "Capacity")
           THEN [df |-> d, summary |-> EmptySummary, err |-> ErrSummaryKey]
           ELSE Bind({d["full cycle"][i] : i \in Rows(d)}, LAMBDA K :
                Bind(SummaryCurrent(d, K, lab), LAMBDA s0 :
                Bind(SummaryVoltage(d, K, s0), LAMBDA s1 :
                Bind(SummaryCapacity(d, K, s1), LAMBDA s2 :
                  [df |-> d, summary |-> SummaryAverage(d, K, s2), err |-> NoErr]))))))

(***************************************************************************)
(* dqdv_single_cycle(capacity, voltage, ...).  The arrays it computes are   *)
(* terms that name the operation and its operands; what is computed with   *)
(* numbers is what decides the control flow: the voltages that are left    *)
(* after the groupby, the size of the grid and the parameter checks of     *)
(* scipy's splrep and savgol_filter.                                       *)
(***************************************************************************)
\* np.linspace(..., num=int(1e4))
GridSize == 10000

ErrSpline == "TypeError: splrep: m > k must hold"
ErrSavgol == "ValueError: savgol_filter: window_length or polyorder"
ErrSplineOrder == "ValueError: splrep: 1 <= k <= 5 must hold"

\* df.astype(float).groupby('Voltage').mean(): the voltages, each once, and
\* the mean capacity (sum and count) of the rows of each
Dedup(capacity, voltage) ==
    [v \in {voltage[i] : i \in DOMAIN voltage} |->
        <<SumOver(capacity, {i \in DOMAIN voltage : voltage[i] = v}),
          Cardinality({i \in DOMAIN voltage : voltage[i] = v})>>]

\* savgol_filter(x, window_length, polyorder) on an array of n points raises
\* for polyorder >= window_length, for window_length > n (mode 'interp') and,
\* in the scipy releases that take odd windows only, for an even window
SavgolRaises(window, order, n, odd_only) ==
    \/ order >= window
    \/ odd_only /\ window % 2 = 0
    \/ window > n

\* splrep(x, y, k=k) on m points raises unless 1 <= k <= 5 and m > k
SplrepRaises(m, k) == k < 1 \/ k > 5 \/ m <= k

NoCall == [args |-> <<>>, done |-> <<>>, failed_at |-> "none", out |-> <<>>]

Raised(a, done, stage, e) ==
    [call |-> [args |-> a, done |-> done, failed_at |-> stage, out |-> <<>>], err |-> e]

\* the stages in the order of the statements; a is the record of the
\* arguments, odd_only the scipy release at hand
dqdv_single_cycle(a, odd_only) ==
    Bind(Dedup(a.capacity, a.voltage), LAMBDA unique :
    Bind([op |-> "linspace", lo |-> MinOf(DOMAIN unique), hi |-> MaxOf(DOMAIN unique),
          num |-> GridSize], LAMBDA x_volt :
      IF SplrepRaises(Cardinality(DOMAIN unique), 1)
      THEN Raised(a, <<"dedup", "grid">>, "resample", ErrSpline)
      ELSE Bind([op |-> "splev", of |-> [op |-> "splrep", xy |-> unique, k |-> 1], at |-> x_volt],
             LAMBDA y_cap :
        IF SavgolRaises(a.window_size_1, a.polyorder_1, GridSize, odd_only)
        THEN Raised(a, <<"dedup", "grid", "resample">>, "filter1", ErrSavgol)
        ELSE Bind([op |-> "savgol_filter", of |-> y_cap, window |-> a.window_size_1,
                   order |-> a.polyorder_1], LAMBDA smooth_cap :
          IF SplrepRaises(GridSize, a.polynomial_spline)
          THEN Raised(a, <<"dedup", "grid", "resample", "filter1">>, "spline", ErrSplineOrder)
          ELSE Bind([op |-> "splev der=1",
                     of |-> [op |-> "splrep", xy |-> smooth_cap, k |-> a.polynomial_spline],
                     at |-> x_volt], LAMBDA deriv :
            \* smooth_dqdv = savgol_filter(dqdv, window_size_2, polyorder_2)
            IF SavgolRaises(a.window_size_2, a.polyorder_2, GridSize, odd_only)
            THEN Raised(a, <<"dedup", "grid", "resample", "filter1", "spline", "derivative">>,
                        "filter2", ErrSavgol)
            ELSE Bind([op |-> "savgol_filter", of |-> deriv, window |-> a.window_size_2,
                       order |-> a.polyorder_2], LAMBDA smooth_dqdv :
              [call |-> [args |-> a,
                         done |-> <<"dedup", "grid", "resample", "filter1", "spline",
                                    "derivative", "filter2">>,
                         failed_at |-> "none",
                         out |-> [x_volt |-> x_volt,
                                  dqdv |-> IF a.final_smooth THEN smooth_dqdv ELSE deriv,
                                  smooth_cap |-> smooth_cap]],
               err |-> NoErr]))))))

(***************************************************************************)
(* echem_file_loader(filepath) on the table its branch parses the file to. *)
(***************************************************************************)
Branch(kind, d0, unit) ==
    CASE kind = "res" -> arbin_res(d0)
      [] kind = "mpr" -> biologic_processing(d0)
      [] kind = "txt" -> TxtBranch(d0)
      [] kind = "xlsx new land" -> new_land_processing(d0)
      [] kind = "xlsx old land" -> old_land_processing(d0)
      [] kind = "xlsx arbin" -> arbin_excel(d0)
      [] kind = "nda" -> neware_reader(d0, unit)
      [] kind = "csv" -> CsvBranch(d0)

echem_file_loader(kind, d0, unit) ==
    Bind(Branch(kind, d0, unit), LAMBDA res :
      IF res.err = NoErr THEN [df |-> AddFullCycle(res.df), err |-> NoErr] ELSE res)

\* a call of the loader function itself (arbin_res(df), ...) by a caller
\* that parsed the file: ivium_processing reads its columns unchecked
DirectCall(kind, d0, unit) ==
    IF kind = "txt" /\ ~({"time /s", "I /mA", "E /V"} \subseteq DOMAIN d0)
    THEN [df |-> d0, err |-> ErrKeyError]
    ELSE Branch(kind, d0, unit)

FileLoader == "echem_file_loader"
Direct == "direct"
\* the .csv branch is code of echem_file_loader only
Callers(kind) == IF kind = "csv" THEN {FileLoader} ELSE {FileLoader, Direct}

\* the dtypes of the columns whose dtype the code decides
NoTypes == [c \in {} |-> "object"]
CanonicalTypes ==
    [c \in expected_columns |->
       IF c \in {"Capacity", "Voltage", "Current"} THEN "float"
       ELSE IF c \in {"full cycle", "half cycle"} THEN "int"
       ELSE "object"]
TypesIn(kind, d0) == IF kind = "csv" THEN [c \in expected_columns \cap DOMAIN d0 |-> CanonicalTypes[c]]
                     ELSE NoTypes
TypesOfBranch(kind, d0, d) ==
    IF kind = "csv" THEN CsvTypes(TypesIn(kind, d0))
    ELSE [c \in {"half cycle"} \cap DOMAIN d |-> "int"]
TypesOut(kind, by, d0, d) ==
    IF by = FileLoader THEN AddFullCycleType(d, TypesOfBranch(kind, d0, d))
    ELSE TypesOfBranch(kind, d0, d)

(***************************************************************************)
(* The inputs: the tables the files parse to.                              *)
(***************************************************************************)
Sizes == 1..MaxLen
CurrentValues == {-1, 0, 1, NaN}
CounterValues == {0, 1}
TimeValues == {0, 3600, 7200}
ChargeValues == {-2, 0, 2}
VoltValues == {2, 3}
LandCurrents == {-1, 0, 1, NaN, TextCell}
Statuses == {"Rest", "CC_Chg", "CC_DChg", "CV_Chg"}
CycleValues == {1, 2}
HalfValues == {0, 1, 2, 3}

Cols(n, S) == [1..n -> S]
NonDec(n, S) == {c \in [1..n -> S] : \A i \in 1..(n-1) : c[i] <= c[i+1]}
Volts(n) == Col([i \in 1..n |-> 3])
Hours(n) == Col([i \in 1..n |-> (i - 1) * SecondsPerHour])
Reverse(c) == Col([i \in DOMAIN c |-> c[Len(c) + 1 - i]])
Ramp(n) == Col([i \in 1..n |-> i])

\* scenario b of the specification: discharge, rest, charge
ScenarioB == <<-1, -1, 0, 0, 1, 1>>

Frame(n, cols) == [c \in (DOMAIN cols) \cup {IDX} |-> IF c = IDX THEN RangeIndex(n) ELSE cols[c]]

(***************************************************************************)
(* The state machine: one call of echem_file_loader or of a loader itself *)
(* (via), then cycle_summary on the table it returned.                     *)
(***************************************************************************)
Init ==
    /\ pc = "start"
    /\ src = "none"
    /\ via = "none"
    /\ expected_capacity_unit = ""
    /\ raw = EmptyFrame
    /\ df = EmptyFrame
    /\ dtype = NoTypes
    /\ err = NoErr
    /\ summary = EmptySummary
    /\ dqdv = NoCall

Load(kind, table, u) ==
    \E d0 \in {Col(table)} : \E by \in Callers(kind) :
    \E res \in {IF by = FileLoader THEN echem_file_loader(kind, d0, u)
                ELSE DirectCall(kind, d0, u)} :
       /\ src' = kind
       /\ via' = by
       /\ expected_capacity_unit' = u
       /\ dqdv' = dqdv
       /\ raw' = d0
       /\ df' = res.df
       /\ err' = res.err
       /\ pc' = IF res.err = NoErr THEN "loaded" ELSE "failed"
       /\ dtype' = IF res.err = NoErr THEN TypesOut(kind, by, d0, res.df) ELSE TypesIn(kind, d0)
       /\ summary' = EmptySummary

ResTable(cur, dis, chg, layout) ==
    LET n == Len(cur)
        base == ("Data_Point" :> Ramp(n)) @@ ("Current" :> cur) @@ ("Voltage" :> Volts(n))
    IN Frame(n, IF layout = "mAh"
                THEN base @@ ("Discharge_Capacity" :> dis) @@ ("Charge_Capacity" :> chg)
                ELSE IF layout = "Ah"
                THEN base @@ ("Discharge_Capacity(Ah)" :> dis) @@ ("Charge_Capacity(Ah)" :> chg)
                ELSE base)

\* the rows of a table in the opposite order (the index stays 0..n-1)
Reversed(d) == [c \in DOMAIN d |-> IF c = IDX THEN d[c] ELSE Reverse(d[c])]

LoadRes ==
    /\ pc = "start"
    /\ \/ \E n \in Sizes : \E cur \in Cols(n, CurrentValues) :
          \E dis \in NonDec(n, CounterValues), chg \in NonDec(n, CounterValues) :
          \E layout \in {"mAh", "Ah"}, rev \in BOOLEAN :
             LET t == ResTable(cur, dis, chg, layout)
             IN Load("res", IF rev THEN Reversed(t) ELSE t, "")
       \/ \E n \in Sizes : \E cur \in Cols(n, CurrentValues) :
             Load("res", ResTable(cur, cur, cur, "none"), "")
       \/ Load("res", ResTable(ScenarioB, Ramp(6), [i \in 1..6 |-> 0], "mAh"), "")

ExcelTable(cur, dis, chg, layout) ==
    LET n == Len(cur)
        base == ("Current(A)" :> cur) @@ ("Voltage(V)" :> Volts(n)) @@ ("Test_Time(s)" :> Hours(n))
    IN Frame(n, IF layout = "Ah"
                THEN base @@ ("Discharge_Capacity(Ah)" :> dis) @@ ("Charge_Capacity(Ah)" :> chg)
                ELSE base)

LoadXlsxArbin ==
    /\ pc = "start"
    /\ \/ \E n \in Sizes : \E cur \in Cols(n, CurrentValues) :
          \E dis \in NonDec(n, CounterValues), chg \in NonDec(n, CounterValues) :
             Load("xlsx arbin", ExcelTable(cur, dis, chg, "Ah"), "")
       \/ \E n \in Sizes : \E cur \in Cols(n, CurrentValues) :
             Load("xlsx arbin", ExcelTable(cur, cur, cur, "none"), "")

LoadTxt ==
    /\ pc = "start"
    /\ \/ \E n \in Sizes : \E t \in NonDec(n, TimeValues), cur \in Cols(n, CurrentValues) :
             Load("txt", Frame(n, ("time /s" :> t) @@ ("I /mA" :> cur) @@ ("E /V" :> Volts(n))), "")
       \/ \E n \in Sizes : \E cur \in Cols(n, CurrentValues) :
             Load("txt", Frame(n, ("time /s" :> Hours(n)) @@ ("I/mA" :> cur) @@ ("E /V" :> Volts(n))), "")
       \/ Load("txt", Frame(6, ("time /s" :> Hours(6)) @@ ("I /mA" :> ScenarioB)
                               @@ ("E /V" :> Volts(6))), "")

LandTable(cur, cap) ==
    LET n == Len(cur)
    IN Frame(n, ("Current/mA" :> cur) @@ ("Capacity/mAh" :> cap) @@ ("Voltage/V" :> Volts(n))
                @@ ("time /s" :> Hours(n)))

LoadXlsxNewLand ==
    /\ pc = "start"
    /\ \E n \in Sizes : \E cur \in Cols(n, LandCurrents), cap \in Cols(n, CounterValues) :
           Load("xlsx new land", LandTable(cur, cap), "")

LoadXlsxOldLand ==
    /\ pc = "start"
    /\ \E n \in Sizes : \E cur \in Cols(n, LandCurrents), cap \in Cols(n, CounterValues) :
           Load("xlsx old land", SetCol(LandTable(cur, cap), IDX, Ramp(n)), "")

LoadMpr ==
    /\ pc = "start"
    /\ \/ \E n \in Sizes : \E t \in NonDec(n, TimeValues), dq \in Cols(n, ChargeValues) :
             Load("mpr", Frame(n, ("time/s" :> t) @@ ("dQ/mA.h" :> dq) @@ ("Ewe/V" :> Volts(n))), "")
       \/ \E n \in Sizes : \E t \in NonDec(n, TimeValues), q \in Cols(n, ChargeValues) :
             Load("mpr", Frame(n, ("time/s" :> t) @@ ("Q charge/discharge/mA.h" :> q)
                                  @@ ("Ewe/V" :> Volts(n))), "")
       \/ \E n \in Sizes : \E v \in Cols(n, VoltValues), q \in Cols(n, CounterValues) :
             Load("mpr", Frame(n, ("I/mA" :> Volts(n)) @@ ("Ewe/V" :> v) @@ ("(Q-Qo)/C" :> q)), "")
       \/ \E n \in Sizes : \E v \in Cols(n, VoltValues) :
             Load("mpr", Frame(n, ("<I>/mA" :> Volts(n)) @@ ("Ewe/V" :> v)), "")
       \/ \E n \in Sizes : \E q \in Cols(n, CounterValues) :
             Load("mpr", Frame(n, ("Ewe/V" :> Volts(n)) @@ ("(Q-Qo)/C" :> q)), "")

\* the current the instrument reports in a step of the given status
StatusCurrent(status) ==
    IF status = "Rest" THEN 0 ELSE IF status = "CC_DChg" THEN -1 ELSE 1

LoadNda ==
    /\ pc = "start"
    /\ \E n \in Sizes : \E status \in Cols(n, Statuses), cyc \in NonDec(n, CycleValues) :
       \E dis \in NonDec(n, CounterValues), chg \in NonDec(n, CounterValues) :
       \E u \in {"mAh", "Ah", "Wh"} :
           Load("nda", Frame(n, ("Index" :> Ramp(n)) @@ ("Status" :> status) @@ ("Cycle" :> cyc)
                                @@ ("Discharge_Capacity(mAh)" :> dis)
                                @@ ("Charge_Capacity(mAh)" :> chg)
                                @@ ("Current(mA)" :> [i \in 1..n |-> StatusCurrent(status[i])])
                                @@ ("Voltage" :> Volts(n))), u)

\* the 'state' column as pd.read_csv types it: strings when an 'R' makes the
\* column text, integers otherwise
CsvState(sign) ==
    IF \E i \in DOMAIN sign : sign[i] = StR
    THEN [i \in DOMAIN sign |-> IF sign[i] = St0 THEN Str0 ELSE IF sign[i] = St1 THEN Str1 ELSE StR]
    ELSE sign

CsvTable(half, full, sign, cap) ==
    LET n == Len(half)
    IN Frame(n, ("Capacity" :> cap) @@ ("Voltage" :> Volts(n)) @@ ("Current" :> Ramp(n))
                @@ ("half cycle" :> half) @@ ("full cycle" :> full)
                @@ ("state" :> CsvState(sign)))

LoadCsv ==
    /\ pc = "start"
    /\ \E n \in Sizes : \E half \in NonDec(n, HalfValues), sign \in Cols(n, {StR, St0, St1}) :
       \E full \in {FullCycle(half), half, [i \in 1..n |-> 0]}, cap \in {Ramp(n), [i \in 1..n |-> 1]} :
       \E missing \in {"none", "full cycle", "state"} :
           Load("csv", DropCol(CsvTable(half, full, sign, cap), missing), "")

CycleSummary ==
    /\ pc = "loaded"
    /\ \E label \in {NoLabel, "Current"} :
       \E res \in {cycle_summary(df, label)} : \E lab \in {SummaryLabel(res.df, label)} :
          /\ pc' = IF res.err = NoErr THEN "summarised" ELSE "failed"
          /\ df' = res.df
          /\ summary' = res.summary
          /\ err' = res.err
          /\ dtype' = IF ~HasCol(df, "half cycle") THEN dtype
                      ELSE [c \in (DOMAIN dtype) \cup {"full cycle"}
                                  \cup (IF lab \in DOMAIN res.df THEN {lab} ELSE {}) |->
                              IF c = "full cycle" \/ c = lab THEN "float" ELSE dtype[c]]
          /\ UNCHANGED <<src, via, expected_capacity_unit, raw, dqdv>>

WindowValues == {3, 4, 10001}
OrderValues == {2, 5}
SplineOrders == {3}
CapacityValues == {0, 1}

DqdvSingleCycle ==
    /\ pc = "start"
    /\ \E n \in Sizes : \E capacity \in Cols(n, CapacityValues), voltage \in Cols(n, VoltValues) :
       \E w1 \in WindowValues, w2 \in WindowValues, o1 \in OrderValues, o2 \in OrderValues :
       \E k \in SplineOrders, smooth \in BOOLEAN, odd_only \in BOOLEAN :
       \E res \in {dqdv_single_cycle([capacity |-> capacity, voltage |-> voltage,
                                       polynomial_spline |-> k,
                                       polyorder_1 |-> o1, window_size_1 |-> w1,
                                       polyorder_2 |-> o2, window_size_2 |-> w2,
                                       final_smooth |-> smooth], odd_only)} :
          /\ dqdv' = res.call
          /\ err' = res.err
          /\ pc' = IF res.err = NoErr THEN "returned" ELSE "raised"
          /\ UNCHANGED <<src, via, expected_capacity_unit, raw, df, dtype, summary>>

Next ==
    \/ LoadRes
    \/ LoadMpr
    \/ LoadTxt
    \/ LoadXlsxNewLand
    \/ LoadXlsxOldLand
    \/ LoadXlsxArbin
    \/ LoadNda
    \/ LoadCsv
    \/ CycleSummary
    \/ DqdvSingleCycle

Spec == Init /\ [][Next]_vars

(***************************************************************************)
(* Properties of the tables the loaders return.                            *)
(***************************************************************************)
\* the loaders that derive 'state' and 'half cycle' themselves
SignLoaders ==
    {"res", "mpr", "txt", "xlsx new land", "xlsx old land", "xlsx arbin", "nda"}

\* a loader returned a table that carries the segmentation columns
Segmented ==
    /\ pc = "loaded"
    /\ src \in SignLoaders
    /\ HasCol(df, "state")
    /\ HasCol(df, "half cycle")

\* the last row before i that is not at rest, 0 if there is none
PrevNonRest(state, i) ==
    IF \E j \in 1..(i-1) : state[j] # StR
    THEN CHOOSE j \in 1..(i-1) : state[j] # StR /\ \A k \in (j+1)..(i-1) : state[k] = StR
    ELSE 0

\* the half cycle of the row before i, 0 before the first row
HalfBefore(half, i) == IF i = 1 THEN 0 ELSE half[i-1]

\* row i is not at rest and its state differs from the last non-rest state
StateChanges(state, i) ==
    /\ state[i] # StR
    /\ \/ PrevNonRest(state, i) = 0
       \/ state[PrevNonRest(state, i)] # state[i]

\* the column the loader maps the state from, as the returned table holds it
Classifier ==
    CASE src = "res" -> df["Current"]
      [] src = "xlsx arbin" -> df["Current(A)"]
      [] src = "txt" -> df["I /mA"]
      [] src \in {"xlsx new land", "xlsx old land"} -> df["Current/mA"]
      [] src = "mpr" -> IF HasCol(df, "dt") THEN df["Current"] ELSE df["dV"]
      [] src = "nda" -> df["Current(mA)"]

\* C1: in the table any loader returns, 'half cycle' never decreases along
\* the rows and grows by exactly 1 at each row that is not at rest and whose
\* state differs from the previous non-rest state (the first non-rest row
\* included), and by 0 at every other row.
C1_HalfCycleCountsStateChanges ==
    Segmented =>
       \A i \in Rows(df) :
          df["half cycle"][i] = HalfBefore(df["half cycle"], i)
                                + (IF StateChanges(df["state"], i) THEN 1 ELSE 0)

\* the same rule on the loaders that count the changes of 'state'
HalfCycleCountsWhereSegmented ==
    (Segmented /\ src # "nda") =>
       \A i \in Rows(df) :
          df["half cycle"][i] = HalfBefore(df["half cycle"], i)
                                + (IF StateChanges(df["state"], i) THEN 1 ELSE 0)

\* C2: in the table any loader returns, a row is at rest exactly when the
\* value its state was mapped from equals zero.
C2_RestIffZero ==
    Segmented =>
       \A i \in Rows(df) : (df["state"][i] = StR) <=> FEq(Classifier[i], 0)

\* C4: in the table any loader returns, the capacity of the first non-rest
\* row of every half cycle is 0.
C4_CapacityStartsAtZero ==
    (Segmented /\ HasCol(df, "Capacity")) =>
       \A i \in Rows(df) :
          (/\ df["state"][i] # StR
           /\ \A j \in 1..(i-1) :
                 ~(df["half cycle"][j] = df["half cycle"][i] /\ df["state"][j] # StR))
          => df["Capacity"][i] = 0

\* the current column of the file, for the loaders that read one
RawCurrent ==
    CASE src = "res" -> raw["Current"]
      [] src = "xlsx arbin" -> raw["Current(A)"]
      [] src = "txt" /\ HasCol(raw, "I /mA") -> raw["I /mA"]
      [] src \in {"xlsx new land", "xlsx old land"} -> raw["Current/mA"]
      [] OTHER -> <<>>

\* C5: a row at rest carries the half cycle of the non-rest row before it
\* (0 if there is none), so that currents [neg, neg, 0, 0, pos, pos] give
\* the half cycles [1, 1, 1, 1, 2, 2].
C5_RestCarriesHalfCycle ==
    /\ Segmented =>
          \A i \in Rows(df) :
             df["state"][i] = StR =>
                df["half cycle"][i] =
                   (IF PrevNonRest(df["state"], i) = 0 THEN 0
                    ELSE df["half cycle"][PrevNonRest(df["state"], i)])
    /\ (pc = "loaded" /\ RawCurrent = ScenarioB) =>
          df["half cycle"] = <<1, 1, 1, 1, 2, 2>>

\* C6: the 'state' column of a returned table holds no value other than
\* rest ('R'), charge (0) and discharge (1).
C6_StateIsThreeValued ==
    (pc = "loaded" /\ HasCol(df, "state")) =>
       \A i \in Rows(df) : df["state"][i] \in {StR, St0, St1}

\* h is the least integer that is not below half / 2
IsCeilOfHalf(full, half) == 2 * full >= half /\ 2 * full < half + 2

\* C3: in every table echem_file_loader returns and every table that went
\* through cycle_summary, 'full cycle' is ceil('half cycle' / 2) on every
\* row, whatever the 'full cycle' column of the input held.
C3_FullCycleIsCeilOfHalf ==
    ((pc = "loaded" /\ via = FileLoader) \/ pc = "summarised") =>
       /\ HasCol(df, "half cycle")
       /\ HasCol(df, "full cycle")
       /\ \A i \in Rows(df) : IsCeilOfHalf(df["full cycle"][i], df["half cycle"][i])

\* a csv table whose 'full cycle' disagreed with its third half cycle went
\* through echem_file_loader and cycle_summary
C3_Witness ==
    /\ pc = "summarised"
    /\ src = "csv"
    /\ \E i \in Rows(df) :
          /\ df["half cycle"][i] = 3
          /\ raw["full cycle"][i] # 2
          /\ df["full cycle"][i] = 2

\* the full cycle k of the summarised table has rows of state v
HasState(k, v) == \E i \in Rows(df) : df["full cycle"][i] = k /\ df["state"][i] = v

\* the pair q is the quotient n / d of two floats
IsQuotient(q, n, d) ==
    IF IsNaN(n) \/ IsNaN(d) THEN IsNaN(q[1])
    ELSE /\ ~IsNaN(q[1])
         /\ q[1] * d = n * q[2]
         /\ (q[2] = 0) <=> (d = 0)

CsvLoaded == pc = "loaded" /\ src = "csv"
\* a csv file that lacks one of the expected columns was handed over
CsvIncomplete == src = "csv" /\ ~(expected_columns \subseteq DOMAIN raw)

\* the label 0 / 1 that the text '0' / '1' of a csv file stands for
LabelOf(x) == IF x = Str0 THEN St0 ELSE IF x = Str1 THEN St1 ELSE x

\* C8 as stated: the csv branch returns a table that has the canonical
\* columns unchanged, every one of the six with the values and the type it
\* had on input (half cycle and full cycle integers) and nothing derived
\* again, and rejects a table that lacks one of them.
C8_CsvReturnedUnchanged ==
    /\ CsvLoaded =>
          /\ \A c \in expected_columns \ {"state"} : df[c] = raw[c]
          /\ \A i \in Rows(df) : df["state"][i] = LabelOf(raw["state"][i])
          /\ \A c \in expected_columns : dtype[c] = CanonicalTypes[c]
    /\ CsvIncomplete => pc = "failed"

\* C8 as the code has it: Capacity, Voltage, Current and half cycle come
\* back with the values and types of the input and state with the text
\* '0' / '1' turned into the labels 0 / 1, but 'full cycle' is derived again
\* as the float ceil(half cycle / 2) whatever the file held; a file that
\* lacks an expected column is rejected with the ValueError and left as read.
C8_CsvFullCycleRederived ==
    /\ CsvLoaded =>
          /\ \A c \in {"Capacity", "Voltage", "Current", "half cycle"} :
                df[c] = raw[c] /\ dtype[c] = CanonicalTypes[c]
          /\ \A i \in Rows(df) : df["state"][i] = LabelOf(raw["state"][i])
          /\ \A i \in Rows(df) : IsCeilOfHalf(df["full cycle"][i], raw["half cycle"][i])
          /\ dtype["full cycle"] = "float"
    /\ CsvIncomplete => (pc = "failed" /\ err = ErrCsvColumns /\ df = raw)

\* a csv file with text state labels and a 'full cycle' column that is not
\* ceil(half cycle / 2) was loaded
C8_Witness ==
    /\ CsvLoaded
    /\ \E i \in Rows(df) : raw["state"][i] = Str1 /\ df["state"][i] = St1
    /\ \E i \in Rows(df) : raw["full cycle"][i] # df["full cycle"][i]

\* the file holds a value the state is mapped from that is not a number
RawClassifierNaN ==
    \/ \E i \in DOMAIN RawCurrent : IsNaN(RawCurrent[i])
    \/ /\ src = "mpr"
       /\ HasCol(raw, "time/s")
       /\ HasCol(raw, "dQ/mA.h")
       /\ \E i \in Rows(raw) :
             IsNaN(CurrentOf(raw["dQ/mA.h"][i], Diff(raw["time/s"], 0)[i]))

\* C9: a loader handed a value to map the state from that is not a number
\* fails as a whole with the not-a-number error; it never returns a table
\* in which that sample got a state.
C9_NaNCurrentFails ==
    (pc # "start" /\ RawClassifierNaN) => (pc = "failed" /\ err = ErrNotANumber)

\* the file holds none of the charge columns its loader knows
NoChargeSignal ==
    \/ src = "res" /\ ~HasCol(raw, "Discharge_Capacity")
                   /\ ~HasCol(raw, "Discharge_Capacity(Ah)")
    \/ src = "xlsx arbin" /\ ~HasCol(raw, "Discharge_Capacity(Ah)")
    \/ src = "mpr" /\ ~HasCol(raw, "Q charge/discharge/mA.h") /\ ~HasCol(raw, "dQ/mA.h")
                   /\ ~HasCol(raw, "dq/mA.h") /\ ~HasCol(raw, "(Q-Qo)/C")

\* C10: a loader that finds none of the charge columns it knows in its
\* input fails with an error (the missing-column KeyError, unless the state
\* mapping failed before) and returns no table.
C10_NoChargeSignalFails ==
    (pc # "start" /\ NoChargeSignal) =>
       (pc = "failed" /\ err \in {ErrNoCapacity, ErrKeyError, ErrNotANumber})

\* C11: a call that ends in an error leaves the table the caller handed in
\* as it was (no column added, index unchanged), and every table a loader
\* returns has the derived columns 'state', 'half cycle' and 'Capacity'.
C11_NoPartialOutput ==
    /\ (pc = "failed" /\ via = Direct /\ err # ErrSummaryKey) => df = raw
    /\ pc = "loaded" =>
          (HasCol(df, "state") /\ HasCol(df, "half cycle") /\ HasCol(df, "Capacity"))

\* the arguments of the call of dqdv_single_cycle that was made
DqdvCalled == pc \in {"returned", "raised"}

\* a window that is even or longer than the array it runs over, or an order
\* that is not below its window
BadSmoothing(window, order) == window % 2 = 0 \/ window > GridSize \/ order >= window

\* C12: dqdv_single_cycle checks its smoothing parameters first: with a bad
\* window or order of either filter the call fails with the parameter error
\* and no stage of the pipeline has run.
C12_ParametersCheckedFirst ==
    (/\ DqdvCalled
     /\ \/ BadSmoothing(dqdv.args.window_size_1, dqdv.args.polyorder_1)
        \/ BadSmoothing(dqdv.args.window_size_2, dqdv.args.polyorder_2))
    => (pc = "raised" /\ err = ErrSavgol /\ dqdv.done = <<>>)

\* C13 as stated: cycle_summary leaves every column, value and column type
\* of the table it is given unchanged and adds no column to it.
C13_CycleSummaryLeavesTable ==
    [][pc = "loaded" => (df' = df /\ \A c \in DOMAIN dtype : dtype'[c] = dtype[c])]_vars

\* C13 as the code has it: cycle_summary writes 'full cycle' =
\* ceil(half cycle / 2) into the table it is given (adding the column when
\* the table has none) and casts the current column to float; every other
\* column, the index and the other column types stay as they were.
C13_CycleSummaryWritesFullCycle ==
    [][pc = "loaded" =>
          /\ DOMAIN df' = (DOMAIN df) \cup {"full cycle"}
          /\ \A c \in (DOMAIN df) \ {"full cycle"} : df'[c] = df[c]
          /\ \A i \in Rows(df) : IsCeilOfHalf(df'["full cycle"][i], df["half cycle"][i])
          /\ \A c \in (DOMAIN dtype) \ {"full cycle"} : dtype'[c] = dtype[c]
          /\ dtype'["full cycle"] = "float"]_vars

\* cycle_summary ran on the table arbin_res itself returned, which had no
\* 'full cycle' column and has the data points as its index
C13_Witness ==
    /\ pc = "summarised"
    /\ src = "res"
    /\ via = Direct
    /\ HasCol(df, "full cycle")
    /\ df[IDX] # RangeIndex(Len(df[IDX]))

\* the table arbin_res or arbin_excel returned
ModeALoaded == pc = "loaded" /\ src \in {"res", "xlsx arbin"}

\* df['Capacity'] as it was before the reset loop, from the counters the
\* returned table still holds
PreReset == IF src = "res" THEN ArbinResCapacity(df) ELSE ArbinExcelCapacity(df)

\* the first row of the half cycle of row i that is not at rest, 0 if none
FirstActive(i) ==
    IF \E j \in Rows(df) : df["half cycle"][j] = df["half cycle"][i] /\ df["state"][j] # StR
    THEN CHOOSE j \in Rows(df) :
            /\ df["half cycle"][j] = df["half cycle"][i] /\ df["state"][j] # StR
            /\ \A k \in 1..(j-1) :
                  ~(df["half cycle"][k] = df["half cycle"][i] /\ df["state"][k] # StR)
    ELSE 0

\* C14: in the table arbin_res or arbin_excel returns, every row (rest rows
\* included) of a half cycle that has a non-rest row holds its capacity from
\* before the reset minus that of the first non-rest row of the half cycle;
\* the rows of a half cycle without a non-rest row keep the capacity from
\* before the reset, and no error is raised for them.
C14_ResetFromFirstNonRest ==
    ModeALoaded =>
       \A i \in Rows(df) :
          df["Capacity"][i] =
             (IF FirstActive(i) = 0 THEN PreReset[i]
              ELSE PreReset[i] - PreReset[FirstActive(i)])

\* a returned table with a rest row in a half cycle whose first non-rest row
\* had a capacity other than 0, after a leading rest that kept its capacity
C14_Witness ==
    /\ ModeALoaded
    /\ \E i \in Rows(df) :
          df["state"][i] = StR /\ FirstActive(i) # 0 /\ PreReset[FirstActive(i)] # 0
    /\ \E i \in Rows(df) : FirstActive(i) = 0 /\ df["Capacity"][i] # 0

\* the returned table comes from two counters in Ah
AhCounters ==
    /\ pc = "loaded"
    /\ \/ src = "res" /\ HasCol(df, "Discharge_Capacity(Ah)") /\ ~HasCol(df, "Discharge_Capacity")
       \/ src = "xlsx arbin"
       \/ src = "nda" /\ expected_capacity_unit = "Ah"

\* 1000 * (discharge counter + charge counter) of row i of the returned table
SumInMilliAh(i) ==
    IF src = "nda"
    THEN 1000 * (df["Discharge_Capacity(mAh)"][i] + df["Charge_Capacity(mAh)"][i])
    ELSE 1000 * (df["Discharge_Capacity(Ah)"][i] + df["Charge_Capacity(Ah)"][i])

\* C15: for counters in Ah the capacity before the reset is
\* 1000 * (discharge counter + charge counter), the factor on both counters,
\* in arbin_res, arbin_excel and neware_reader alike; the returned Capacity
\* is that value, less its value at the first non-rest row of the half
\* cycle where arbin_res and arbin_excel reset it.
C15_BothCountersInMilliAh ==
    AhCounters =>
       \A i \in Rows(df) :
          df["Capacity"][i] =
             (IF src = "nda" \/ FirstActive(i) = 0 THEN SumInMilliAh(i)
              ELSE SumInMilliAh(i) - SumInMilliAh(FirstActive(i)))

\* the same with arbin_res left out
BothCountersInMilliAhElsewhere ==
    (AhCounters /\ src # "res") =>
       \A i \in Rows(df) :
          df["Capacity"][i] =
             (IF src = "nda" \/ FirstActive(i) = 0 THEN SumInMilliAh(i)
              ELSE SumInMilliAh(i) - SumInMilliAh(FirstActive(i)))

\* the table ivium_processing or the dQ branch of biologic_processing
\* returned, all of its currents finite numbers
ModeBLoaded ==
    /\ pc = "loaded"
    /\ \/ src = "txt"
       \/ src = "mpr" /\ HasCol(raw, "time/s") /\ HasCol(raw, "dQ/mA.h")
    /\ \A i \in Rows(df) : ~IsNaN(Classifier[i]) /\ ~IsInf(Classifier[i])

ModeBTime == IF src = "txt" THEN df["time /s"] ELSE df["time/s"]

\* |current * dt| of row j, in mA s, for the given dt of the first row
AbsCharge(j, dt0) ==
    Abs(Classifier[j] * (IF j = 1 THEN dt0 ELSE ModeBTime[j] - ModeBTime[j-1]))

\* the running sum of |current * dt / 3600| over the half cycle of row i
RunningCharge(i, dt0) ==
    SumOver([j \in Rows(df) |-> AbsCharge(j, dt0)],
            {j \in 1..i : df["half cycle"][j] = df["half cycle"][i]}) \div SecondsPerHour

\* C16: with dt[i] = time[i] - time[i-1] and dt[0] = 0 whatever time[0] is,
\* Capacity of row i is the sum of |current * dt / 3600| over the rows up to
\* i of the half cycle of i; a constant current of -1 mA over 3600 s ends
\* with Capacity 1, every row in the discharge state and in half cycle 1.
C16_ModeBRunningSum ==
    /\ ModeBLoaded => \A i \in Rows(df) : df["Capacity"][i] = RunningCharge(i, 0)
    /\ (/\ ModeBLoaded
        /\ \A i \in Rows(df) : Classifier[i] = -1
        /\ ModeBTime[Len(ModeBTime)] - ModeBTime[1] = SecondsPerHour)
       => /\ df["Capacity"][Len(ModeBTime)] = 1
          /\ \A i \in Rows(df) : df["state"][i] = DischargeLabel /\ df["half cycle"][i] = 1

\* the same with dt[0] = time[0] - 0, the np.diff(..., prepend=0) of the code
ModeBRunningSumFromTimeZero ==
    ModeBLoaded => \A i \in Rows(df) : df["Capacity"][i] = RunningCharge(i, ModeBTime[1])

\* the labels the docstring of echem_file_loader gives:
\* "R for rest, 0 for discharge, 1 for charge"
DocumentedDischarge == St0
DocumentedCharge == St1

\* the capacities of the rows of full cycle k that are in state v
CapacitiesOf(k, v) ==
    {df["Capacity"][i] : i \in {j \in Rows(df) : df["full cycle"][j] = k /\ df["state"][j] = v}}

\* x is the largest of the numbers in S, and not a number if S has none
IsMaxOf(x, S) ==
    IF {y \in S : ~IsNaN(y)} = {} THEN IsNaN(x)
    ELSE x \in S /\ ~IsNaN(x) /\ \A y \in S : IsNaN(y) \/ y <= x

\* C17: 'Discharge Capacity' of full cycle k is the largest Capacity of the
\* rows of k in the state documented as discharge (0), 'Charge Capacity' the
\* largest of the rows in the state documented as charge (1), and each is
\* absent (not a number) for a cycle with no row of that state.
C17_CapacitiesByDocumentedLabel ==
    pc = "summarised" =>
       \A k \in DOMAIN summary["Discharge Capacity"] :
          /\ IsMaxOf(summary["Discharge Capacity"][k], CapacitiesOf(k, DocumentedDischarge))
          /\ IsMaxOf(summary["Charge Capacity"][k], CapacitiesOf(k, DocumentedCharge))

\* the same with the labels cycle_summary selects: 1 discharge, 0 charge
CapacitiesBySelectedLabel ==
    pc = "summarised" =>
       \A k \in DOMAIN summary["Discharge Capacity"] :
          /\ IsMaxOf(summary["Discharge Capacity"][k], CapacitiesOf(k, St1))
          /\ IsMaxOf(summary["Charge Capacity"][k], CapacitiesOf(k, St0))

\* the elements of a sequence
Range(q) == {q[i] : i \in DOMAIN q}

\* C18: with final_smooth = False the second Savitzky-Golay filter is not
\* run, so neither the result nor the failure of the call comes from
\* window_size_2 or polyorder_2.
C18_SecondFilterOnlyIfAsked ==
    (DqdvCalled /\ ~dqdv.args.final_smooth) =>
       ("filter2" \notin Range(dqdv.done) /\ dqdv.failed_at # "filter2")

\* a table returned by a loader that maps the state from a sign and counts
\* the changes of state of the rows that are not at rest
SignSegmented ==
    /\ pc = "loaded"
    /\ src \in {"res", "xlsx arbin", "xlsx new land", "xlsx old land", "mpr"}
    /\ HasCol(df, "state")

Active == {i \in Rows(df) : df["state"][i] # StR}

\* C19: after the segmentation of arbin_res, arbin_excel, the land loaders
\* and biologic_processing no non-rest row has half cycle 0, the non-rest
\* rows of one half cycle have one state, the non-rest states of the half
\* cycles h and h+1 differ, and so a full cycle k >= 1 has at most one
\* half cycle of each of the two states.
C19_HalfCyclesAlternate ==
    SignSegmented =>
       /\ \A i \in Active : df["half cycle"][i] >= 1
       /\ \A i \in Active : df["state"][i] \in {St0, St1}
       /\ \A i, j \in Active :
             /\ df["half cycle"][i] = df["half cycle"][j] => df["state"][i] = df["state"][j]
             /\ df["half cycle"][j] = df["half cycle"][i] + 1 => df["state"][i] # df["state"][j]
             /\ (/\ (df["half cycle"][i] + 1) \div 2 = (df["half cycle"][j] + 1) \div 2
                 /\ df["state"][i] = df["state"][j])
                => df["half cycle"][i] = df["half cycle"][j]

\* a returned table with a rest between two non-rest rows and two half cycles
C19_Witness ==
    /\ SignSegmented
    /\ \E i, k \in Active : \E j \in Rows(df) :
          i < j /\ j < k /\ df["state"][j] = StR /\ df["half cycle"][k] = 2

====
